---- MODULE Spec2Model ----
(***************************************************************************)
(* The preprovision hook (deployment/hooks/preprovision.ps1) as a state    *)
(* machine: the azd environment (ConfigStore), the provider the hook       *)
(* queries (account, app registration, AI Foundry catalog), the hook's     *)
(* local variables and its position in the script.                         *)
(***************************************************************************)
EXTENDS Integers, Sequences, FiniteSets, TLC

\* ------------------------------------------------------------------ bounds
MaxRuns == 2
MaxEdits == 2
MaxResources == 2
MaxAgents == 2
MaxRegistrations == 2
MaxRequests == 3
MaxSubmitEvents == 3

\* ------------------------------------------------------------ the key space
KTenant == "ENTRA_TENANT_ID"
KClient == "ENTRA_SPA_CLIENT_ID"
KGroup == "AI_FOUNDRY_RESOURCE_GROUP"
KName == "AI_FOUNDRY_RESOURCE_NAME"
KEndpoint == "AI_AGENT_ENDPOINT"
KAgent == "AI_AGENT_ID"

Keys == {KTenant, KClient, KGroup, KName, KEndpoint, KAgent}

ResourceKeys == {KGroup, KName, KEndpoint}

\* ---------------------------------------------------------- provider universe
EnvName == "dev"

Candidate(n, g) == [name |-> n, resourceGroup |-> g]

CandidateUniverse ==
    { Candidate("foundry-a", "rg-1"), Candidate("error-hub", "rg-2"),
      Candidate("foundry-b", "rg-2") }

NoResource == Candidate("", "")

InjectiveSeqs(S, n) ==
    UNION { { s \in [1..k -> S] : \A i, j \in 1..k : i # j => s[i] # s[j] } : k \in 0..n }

ResourceLists == InjectiveSeqs(CandidateUniverse, MaxResources)

AgentNames == {"agent-1", "error-bot"}

AgentLists == InjectiveSeqs(AgentNames, MaxAgents)

\* A project name as the management API returns it: '/'-separated segments.
ProjectsOf(res) ==
    IF res.name = "foundry-b"
        THEN << [name |-> <<"foundry-b", "proj-1">>], [name |-> <<"foundry-b", "proj-2">>] >>
    ELSE IF res.name = "error-hub" THEN << [name |-> <<"proj-1">>] >>
    ELSE << >>

ProjectSegments == {"proj-1", "proj-2"}

\* ------------------------------------------------------------- pure helpers
IsNullOrWhiteSpace(v) == v \in {"", " "}

Trim(v) == IF v = " " THEN "" ELSE v

Endpoint(resourceName, projectName) ==
    "https://" \o resourceName \o ".services.ai.azure.com/api/projects/" \o projectName

\* LastSegment, were it to take the first segment: Split('/')[0].
LastSegment_FirstSegment(segments) == segments[1]

\* Split('/')[-1]
LastSegment(segments) == segments[Len(segments)]

\* The values of the model's universe that the regex 'ERROR' matches
\* (-notmatch is case-insensitive).
ErrorNames == {"error-hub", "error-bot"}

MatchesERROR(v) ==
    \/ v \in ErrorNames
    \/ \E n \in ErrorNames, p \in ProjectSegments : v = Endpoint(n, p)

\* GetValue, were every key read as unset.
GetValue_ReadsNothing(s, key) == ""

\* (azd env get-value KEY 2>&1) | Where-Object { $_ -notmatch 'ERROR' } | Select-Object -First 1
\* A missing key makes azd print an ERROR line, which the filter drops.
GetValue(s, key) ==
    IF s[key] = "" \/ MatchesERROR(s[key]) THEN "" ELSE s[key]

\* AppName, were the environment name left out of the display name.
AppName_EnvDropped(envName) == "ai-foundry-agent"

\* preprovision.ps1 63
AppName(envName) == "ai-foundry-agent-" \o envName

\* ------------------------------------------------- the identity registrar
\* New-EntraAppRegistration.ps1 is called with -AppName and -TenantId only
\* (preprovision.ps1 134-137): the redirect URIs are the module's localhost set.
LocalhostUris == {"http://localhost:5173"}

\* the client identifiers the identity provider hands out, in order of creation
ClientIds == <<"client-1", "client-2", "client-3", "client-4">>

NewClientId(dir) == IF Len(dir) < Len(ClientIds) THEN ClientIds[Len(dir) + 1] ELSE "client-n"

\* exact display-name match within the tenant
Registered(dir, tenantId, displayName) ==
    { i \in DOMAIN dir : dir[i].tenantId = tenantId /\ dir[i].displayName = displayName }

FirstRegistered(dir, tenantId, displayName) ==
    CHOOSE i \in Registered(dir, tenantId, displayName) :
        \A j \in Registered(dir, tenantId, displayName) : i <= j

\* registerOrUpdate, were it to create a registration on every call.
RegisterOrUpdate_AlwaysCreates(dir, tenantId, displayName, redirectUris) ==
    Append(dir, [tenantId |-> tenantId, displayName |-> displayName,
                 clientId |-> NewClientId(dir), redirectUris |-> redirectUris])

\* registerOrUpdate, were it to set the redirect URIs to the requested ones.
RegisterOrUpdate_ReplacesUris(dir, tenantId, displayName, redirectUris) ==
    IF Registered(dir, tenantId, displayName) # {}
    THEN [dir EXCEPT ![FirstRegistered(dir, tenantId, displayName)].redirectUris =
                          redirectUris]
    ELSE Append(dir, [tenantId |-> tenantId, displayName |-> displayName,
                      clientId |-> NewClientId(dir), redirectUris |-> redirectUris])

\* registerOrUpdate(displayName, tenantId, redirectUris): the directory afterwards
RegisterOrUpdate(dir, tenantId, displayName, redirectUris) ==
    IF Registered(dir, tenantId, displayName) # {}
    THEN [dir EXCEPT ![FirstRegistered(dir, tenantId, displayName)].redirectUris =
                          @ \cup redirectUris]
    ELSE Append(dir, [tenantId |-> tenantId, displayName |-> displayName,
                      clientId |-> NewClientId(dir), redirectUris |-> redirectUris])

\* the client identifier registerOrUpdate returns
ClientIdOf(dir, tenantId, displayName) ==
    dir[FirstRegistered(dir, tenantId, displayName)].clientId

\* the test of line 145, were it left out.
ClientIdReturned_NotTested(clientId) == TRUE

\* preprovision.ps1 145: if (-not $clientId)
ClientIdReturned(clientId) == clientId # ""

\* ------------------------------------------------------------ the selector
\* SelectByName, were it to take the first candidate listed once a name matches.
SelectByName_FirstListed(rs, configuredResourceName) ==
    IF ~IsNullOrWhiteSpace(configuredResourceName)
    THEN LET matched == SelectSeq(rs, LAMBDA r : r.name = configuredResourceName)
         IN IF Len(matched) >= 1 THEN rs[1] ELSE NoResource
    ELSE NoResource

\* SelectByName, were a configured name taken on trust when nothing matches it.
SelectByName_TrustsHint(rs, configuredResourceName) ==
    IF ~IsNullOrWhiteSpace(configuredResourceName)
    THEN LET matched == SelectSeq(rs, LAMBDA r : r.name = configuredResourceName)
         IN IF Len(matched) >= 1 THEN matched[1]
            ELSE Candidate(configuredResourceName, "")
    ELSE NoResource

\* preprovision.ps1 249-257: the configured resource name, first match wins.
SelectByName(rs, configuredResourceName) ==
    IF ~IsNullOrWhiteSpace(configuredResourceName)
    THEN LET matched == SelectSeq(rs, LAMBDA r : r.name = configuredResourceName)
         IN IF Len(matched) >= 1 THEN matched[1] ELSE NoResource
    ELSE NoResource

\* SelectByGroup, were it to accept the first of several matches (-ge 1 for -eq 1).
SelectByGroup_AnyMatch(rs, configuredResourceGroup, selected) ==
    IF selected = NoResource /\ ~IsNullOrWhiteSpace(configuredResourceGroup)
    THEN LET matched == SelectSeq(rs, LAMBDA r : r.resourceGroup = configuredResourceGroup)
         IN IF Len(matched) >= 1 THEN matched[1] ELSE NoResource
    ELSE selected

\* preprovision.ps1 259-269: the configured resource group, a unique match only.
SelectByGroup(rs, configuredResourceGroup, selected) ==
    IF selected = NoResource /\ ~IsNullOrWhiteSpace(configuredResourceGroup)
    THEN LET matched == SelectSeq(rs, LAMBDA r : r.resourceGroup = configuredResourceGroup)
         IN IF Len(matched) = 1 THEN matched[1] ELSE NoResource
    ELSE selected

\* SelectByHints, were the single-candidate shortcut (239-241) left out.
SelectByHints_NoShortcut(rs, existingResourceName, existingResourceGroup) ==
    SelectByGroup(rs, Trim(existingResourceGroup),
                  SelectByName(rs, Trim(existingResourceName)))

\* preprovision.ps1 239-269: NoResource means that the prompt is needed.
SelectByHints(rs, existingResourceName, existingResourceGroup) ==
    IF Len(rs) = 1 THEN rs[1]
    ELSE SelectByGroup(rs, Trim(existingResourceGroup),
                       SelectByName(rs, Trim(existingResourceName)))

\* What the host does with the two prompts of Select-Index.
NotAsked == [kind |-> "notAsked", parsed |-> FALSE, value |-> 0]

PromptForChoiceAnswers(n, h) ==
    [kind : {"unavailable", "throws"}, parsed : {FALSE}, value : {0}]
    \cup IF h = "interactive"
         THEN [kind : {"returns"}, parsed : {TRUE}, value : (0 - 1)..n]
         ELSE {}

\* Read-Host, were it to wait for a line that never comes.
ReadHostAnswers_NeverReturns(n, h) == {}

ReadHostAnswers(n, h) ==
    [kind : {"throws"}, parsed : {FALSE}, value : {0}]
    \cup [kind : {"returns"}, parsed : {FALSE}, value : {0}]
    \cup IF h = "interactive"
         THEN [kind : {"returns"}, parsed : {TRUE}, value : 0..(n + 1)]
         ELSE {}

\* preprovision.ps1 81-101
PromptForChoiceAccepted(n, pfc) ==
    pfc.kind = "returns" /\ pfc.value >= 0 /\ pfc.value < n

\* Select-Index, were the catch block of PromptForChoice to return the last index.
SelectIndex_CatchReturnsLast(n, pfc, rh) ==
    IF pfc.kind = "throws" THEN n - 1
    ELSE IF PromptForChoiceAccepted(n, pfc) THEN pfc.value
    ELSE IF rh.kind = "returns" /\ rh.parsed /\ rh.value >= 1 /\ rh.value <= n
         THEN rh.value - 1
    ELSE 0 - 1

\* Select-Index, were the number typed at Read-Host not compared with the count.
SelectIndex_RangeUnchecked(n, pfc, rh) ==
    IF PromptForChoiceAccepted(n, pfc) THEN pfc.value
    ELSE IF rh.kind = "returns" /\ rh.parsed /\ rh.value >= 1
         THEN rh.value - 1
    ELSE 0 - 1

\* Select-Index, were a number above the count taken as the last item.
SelectIndex_ClampsAnswer(n, pfc, rh) ==
    IF PromptForChoiceAccepted(n, pfc) THEN pfc.value
    ELSE IF rh.kind = "returns" /\ rh.parsed /\ rh.value >= 1
         THEN (IF rh.value <= n THEN rh.value - 1 ELSE n - 1)
    ELSE 0 - 1

\* preprovision.ps1 69-122
SelectIndex(n, pfc, rh) ==
    IF PromptForChoiceAccepted(n, pfc) THEN pfc.value
    ELSE IF rh.kind = "returns" /\ rh.parsed /\ rh.value >= 1 /\ rh.value <= n
         THEN rh.value - 1
    ELSE 0 - 1

\* The fallback, were it to index with the -1 it was given: the last candidate.
ResolveSelection_IndexesWithMinusOne(rs, selectedIndex) ==
    IF selectedIndex < 0 THEN rs[Len(rs)] ELSE rs[selectedIndex + 1]

\* preprovision.ps1 276-286
ResolveSelection(rs, selectedIndex) ==
    IF selectedIndex < 0 THEN rs[1] ELSE rs[selectedIndex + 1]

\* ------------------------------------------ chat server (src/server/index.js)
\* JavaScript values the handler tests for truthiness: undefined or a string
JsUndefined == [type |-> "undefined", value |-> ""]

JsString(v) == [type |-> "string", value |-> v]

\* index.js 28 and 34: !message, !apiKey
Falsy(v) == v.type = "undefined" \/ v.value = ""

\* index.js 33: process.env.OPENAI_API_KEY, loaded by dotenv at line 1
ApiKeys == {JsUndefined, JsString(""), JsString("sk-test")}

\* index.js 26: req.body as express.json() parsed it, read for its message
RequestBodies == [message : {JsUndefined, JsString(""), JsString("hi"), JsString("bye")}]

\* index.js 52-53
SystemPrompt == "You are a helpful AI assistant named Mazhar."

\* The checks of the handler, were the key looked at before the message.
Validate_KeyFirst(message, apiKey) ==
    IF Falsy(apiKey) THEN "KeyMissing"
    ELSE IF Falsy(message) THEN "MessageRequired"
    ELSE "Call"

\* index.js 26-39: the message is checked first, then the key
Validate(message, apiKey) ==
    IF Falsy(message) THEN "MessageRequired"
    ELSE IF Falsy(apiKey) THEN "KeyMissing"
    ELSE "Call"

\* The messages sent upstream, were the earlier requests sent along.
UpstreamMessages_WithHistory(served, message) ==
    <<[role |-> "system", content |-> SystemPrompt]>>
    \o [i \in 1..Len(served) |-> [role |-> "user", content |-> served[i].body.message.value]]
    \o <<[role |-> "user", content |-> message.value]>>

\* index.js 50-59: the system prompt and the current message; the requests
\* served before are kept nowhere and do not reach the call
UpstreamMessages(served, message) ==
    <<[role |-> "system", content |-> SystemPrompt],
      [role |-> "user", content |-> message.value]>>

NoCall == << >>

\* what fetch and response.json() give back
Rejected == [resolves |-> FALSE, status |-> 0, json |-> "invalid",
             choices |-> << >>, message |-> JsUndefined]

Resolved(status, json, choices, message) ==
    [resolves |-> TRUE, status |-> status, json |-> json,
     choices |-> choices, message |-> message]

\* json "completion": an object with a choices array of message contents;
\* "error": an object with error.message; "object": an object with neither;
\* "invalid": a body response.json() rejects
UpstreamReplies ==
    { Rejected,
      Resolved(200, "completion", <<JsString("hello")>>, JsUndefined),
      Resolved(200, "completion", <<JsString("")>>, JsUndefined),
      Resolved(200, "completion", << >>, JsUndefined),
      Resolved(200, "object", << >>, JsUndefined),
      Resolved(401, "error", << >>, JsString("bad key")),
      Resolved(429, "object", << >>, JsUndefined),
      Resolved(502, "invalid", << >>, JsUndefined) }

NoReply == [resolves |-> FALSE, status |-> 0, json |-> "none",
            choices |-> << >>, message |-> JsUndefined]

\* fetch: response.ok
Ok(reply) == reply.status \in 200..299

Response(status, body) == [status |-> status, body |-> body]

Pending == Response(0, << >>)

\* index.js 79-85
InternalServerError ==
    Response(500, [error |-> "Internal server error",
                   reply |-> "Sorry, something went wrong. Please try again."])

\* index.js 29
MessageRequired == Response(400, [error |-> "Message is required"])

\* index.js 35-38
KeyNotConfigured ==
    Response(500, [error |-> "OpenAI API key not configured",
                   reply |-> "Server configuration error: Missing OPENAI_API_KEY environment variable"])

\* index.js 42-85, after the fetch settled
Completion(reply) ==
    IF ~reply.resolves THEN InternalServerError
    ELSE IF reply.json = "invalid" THEN InternalServerError
    ELSE IF ~Ok(reply)
    THEN Response(reply.status,
                  [error |-> "OpenAI API error",
                   reply |-> "Error from OpenAI: " \o
                             (IF Falsy(reply.message) THEN "Unknown error"
                              ELSE reply.message.value)])
    ELSE IF reply.json # "completion" THEN InternalServerError
    ELSE IF reply.choices = << >> \/ Falsy(reply.choices[1])
    THEN Response(200, [reply |-> "No response generated"])
    ELSE Response(200, [reply |-> reply.choices[1].value])

\* index.js 28-39: each failed check answers and returns
ValidationSends(v) ==
    IF v = "MessageRequired" THEN <<MessageRequired>>
    ELSE IF v = "KeyMissing" THEN <<KeyNotConfigured>>
    ELSE << >>

\* The answers after the fetch, were the `return` of line 68 missing: the
\* handler goes on to read the body a second time (74), which throws, and the
\* catch block answers again.
CompletionSends_NoReturnOnError(reply) ==
    IF reply.resolves /\ reply.json # "invalid" /\ ~Ok(reply)
    THEN <<Completion(reply), InternalServerError>>
    ELSE <<Completion(reply)>>

\* index.js 65-85: the error answer returns (68), the success answer is the
\* last statement of the try block (77), the catch block answers what threw
\* before either (81)
CompletionSends(reply) == <<Completion(reply)>>

\* --------------------------------------- chat client (src/client/src/App.jsx)
JsNull == [type |-> "null", value |-> ""]

\* what the text input can hold
ClientTexts == {"", " ", "hi", " hi ", "bye"}

\* String.prototype.trim
JsTrim(t) == IF t = " " THEN "" ELSE IF t = " hi " THEN "hi" ELSE t

\* The input, were it left enabled while a request is in flight.
InputDisabled_Never(loading) == FALSE

\* App.jsx 93: disabled={loading}
InputDisabled(loading) == loading

\* App.jsx 96: disabled={loading || !message.trim()}
ButtonDisabled(loading, message) == loading \/ JsTrim(message) = ""

\* The test of line 12, were it made on the untrimmed text.
Accepted_Untrimmed(message) == message # ""

\* App.jsx 12: if (!message.trim()) return
Accepted(message) == JsTrim(message) # ""

Entry(role, content) == [role |-> role, content |-> content]

\* what fetch('/api/chat') and response.json() give the client
Fetched(resolves, ok, json, reply, error) ==
    [resolves |-> resolves, ok |-> ok, json |-> json, reply |-> reply, error |-> error]

NotFetched == Fetched(FALSE, FALSE, "none", JsUndefined, JsUndefined)

ClientReplies ==
    { Fetched(FALSE, FALSE, "invalid", JsUndefined, JsUndefined),
      Fetched(TRUE, TRUE, "object", JsString("hello"), JsUndefined),
      Fetched(TRUE, FALSE, "object", JsString("Server configuration error"),
              JsString("OpenAI API key not configured")),
      Fetched(TRUE, FALSE, "object", JsUndefined, JsString("Message is required")),
      Fetched(TRUE, FALSE, "object", JsUndefined, JsUndefined),
      Fetched(TRUE, FALSE, "invalid", JsUndefined, JsUndefined) }

\* App.jsx 23-35: nothing threw before line 38
Succeeded(r) == r.resolves /\ r.json # "invalid" /\ r.ok

\* App.jsx 34 and 41: err.message
ErrorMessage(r) ==
    IF ~r.resolves THEN "Failed to fetch"
    ELSE IF r.json = "invalid" THEN "Unexpected token"
    ELSE IF ~Falsy(r.reply) THEN r.reply.value
    ELSE IF ~Falsy(r.error) THEN r.error.value
    ELSE "Failed to get response"

\* App.jsx 14-20
AfterSubmit(c) ==
    [c EXCEPT !.message = "",
              !.error = JsNull,
              !.loading = TRUE,
              !.conversation = Append(@, Entry("user", JsString(JsTrim(c.message))))]

\* The end of handleSubmit, were the reply of a failed request shown as an
\* assistant entry.
AfterSettle_AppendsOnFailure(c, r) ==
    [c EXCEPT !.loading = FALSE,
              !.conversation =
                  IF Succeeded(r) THEN Append(@, Entry("assistant", r.reply))
                  ELSE Append(@, Entry("assistant", JsString(ErrorMessage(r)))),
              !.error = IF Succeeded(r) THEN @ ELSE JsString(ErrorMessage(r))]

\* App.jsx 31-45
AfterSettle(c, r) ==
    [c EXCEPT !.loading = FALSE,
              !.conversation =
                  IF Succeeded(r) THEN Append(@, Entry("assistant", r.reply)) ELSE @,
              !.error = IF Succeeded(r) THEN @ ELSE JsString(ErrorMessage(r))]

\* ------------------------------------------------------------------- state
VARIABLES
    store,        \* the azd environment: key -> value, "" when unset
    envFile,      \* .azure/<env>/.env : key -> value
    frontendFile, \* frontend/.env.local
    backendFile,  \* backend/WebApp.Api/.env
    account,      \* az account show
    registrar,    \* what New-EntraAppRegistration.ps1 does for this tenant
    resources,    \* az cognitiveservices account list
    agents,       \* Get-AIFoundryAgents.ps1
    observed,     \* the provider answers already drawn; they never change afterwards
    pc,           \* position of the running hook, "idle" between runs
    runs,
    edits,
    local,        \* the script's variables
    log,          \* what the run did: calls, prompts, warnings, writes, files
    lastRun,      \* how the previous run ended and the store it left
    editedSince,  \* an external azd env set happened since the last run ended
    selections,   \* every resource selection made so far, with its inputs
    storeWritable, \* azd env set succeeds; FALSE once the azd environment rejects writes
    directory,    \* the app registrations of the identity provider, in order of creation
    request,      \* the last registerOrUpdate call and what it found
    server,       \* the chat server process: listening, and its OPENAI_API_KEY
    exchanges,    \* the POST /api/chat requests received, with call, reply and response
    client,       \* the React state of App: message, conversation, loading, error
    requests,     \* the /api/chat requests the client issued, with their outcome
    submits       \* the submit events of the form: the input's text at each

durable == <<store, envFile, frontendFile, backendFile>>
provider == <<account, registrar, resources, agents, observed>>
vars == <<store, envFile, frontendFile, backendFile, account, registrar, resources,
          agents, observed, pc, runs, edits, local, log, lastRun, editedSince,
          selections, storeWritable, directory, request, server, exchanges,
          client, requests, submits>>

identity == <<directory, request>>

chat == <<server, exchanges>>

browser == <<client, requests, submits>>

NotLoggedIn == [loggedIn |-> FALSE, tenantId |-> ""]

Accounts == {NotLoggedIn} \cup [loggedIn : {TRUE}, tenantId : {"", "tenant-1"}]

RegistrarOutcomes == {"ok", "empty", "throws", "timeout"}

AgentOutcomes == [throws : {TRUE}, list : {<< >>}] \cup [throws : {FALSE}, list : AgentLists]

InitLocal ==
    [ host |-> "", tenantId |-> "", clientId |-> "",
      existingEndpoint |-> "", existingResourceGroup |-> "",
      existingResourceName |-> "", existingAgentId |-> "",
      selectedResource |-> NoResource, selectedIndex |-> 0 - 1,
      promptForChoice |-> NotAsked, readHost |-> NotAsked,
      projects |-> << >>, projectName |-> "", aiEndpoint |-> "", aiAgentId |-> "",
      state |-> "Running", reason |-> "", exitCode |-> 0 ]

CallNames == {"register", "listResources", "Select-Index", "listProjects", "listAgents"}

InitLog ==
    [ store0 |-> [k \in Keys |-> ""], calls |-> {}, attempts |-> [c \in CallNames |-> 0],
      warnings |-> {}, written |-> {}, failed |-> {},
      emitted |-> {}, files0 |-> [env |-> << >>, frontend |-> << >>, backend |-> << >>] ]

\* a file that does not exist: no key=value line
NoFile == << >>

NoRequest == [tenantId |-> "", displayName |-> "", redirectUris |-> {}, existed |-> FALSE]

\* App.jsx 4-7
InitClient == [message |-> "", conversation |-> << >>, loading |-> FALSE, error |-> JsNull]

NotListening == [listening |-> FALSE, apiKey |-> JsUndefined]

NoRun == [state |-> "None", reason |-> "", store |-> [k \in Keys |-> ""]]

Init ==
    /\ store = [k \in Keys |-> ""]
    /\ envFile = << >>
    /\ frontendFile = NoFile
    /\ backendFile = NoFile
    /\ account = NotLoggedIn
    /\ registrar = "ok"
    /\ resources = << >>
    /\ agents = [throws |-> FALSE, list |-> << >>]
    /\ observed = {}
    /\ pc = "idle"
    /\ runs = 0
    /\ edits = 0
    /\ local = InitLocal
    /\ log = InitLog
    /\ lastRun = NoRun
    /\ editedSince = FALSE
    /\ selections = {}
    /\ storeWritable = TRUE
    /\ directory = << >>
    /\ request = NoRequest
    /\ server = NotListening
    /\ exchanges = << >>
    /\ client = InitClient
    /\ requests = << >>
    /\ submits = << >>

\* ------------------------------------------------------------ run helpers
\* azd env set KEY VALUE; the command's exit code is never looked at, so a
\* rejected write leaves the environment as it was and the script goes on
SetValue(s, key, value) == IF storeWritable THEN [s EXCEPT ![key] = value] ELSE s

\* Failed, were the script to end with exit 0 after reporting the error.
Failed_ExitsZero(l, why) == [l EXCEPT !.state = "Failed", !.reason = why, !.exitCode = 0]

\* Write-Error ...; exit 1
Failed(l, why) == [l EXCEPT !.state = "Failed", !.reason = why, !.exitCode = 1]

Called(g, name) == [g EXCEPT !.calls = @ \cup {name}, !.attempts[name] = @ + 1]

Wrote(g, key) ==
    IF storeWritable THEN [g EXCEPT !.written = @ \cup {key}]
    ELSE [g EXCEPT !.failed = @ \cup {key}]

Hosts == {"interactive", "headless"}

\* ---------------------------------------------------------------- the run
StartRun ==
    /\ pc = "idle"
    /\ runs < MaxRuns
    /\ runs' = runs + 1
    /\ local' = InitLocal
    /\ log' = [InitLog EXCEPT !.store0 = store,
                              !.files0 = [env |-> envFile, frontend |-> frontendFile,
                                          backend |-> backendFile]]
    /\ pc' = "prereq"
    /\ UNCHANGED <<durable, provider, edits, lastRun, editedSince, selections,
                   storeWritable, identity,
                   chat, browser>>

\* preprovision.ps1 19-25
Prereq ==
    /\ pc = "prereq"
    /\ \E a \in Accounts :
        /\ "account" \in observed => a = account
        /\ account' = a
        /\ observed' = observed \cup {"account"}
        /\ IF a.loggedIn
           THEN pc' = "tenant" /\ local' = local
           ELSE pc' = "exit" /\ local' = Failed(local, "NotLoggedIn")
    /\ UNCHANGED <<durable, registrar, resources, agents, runs, edits, log,
                   lastRun, editedSince, selections,
                   storeWritable, identity,
                   chat, browser>>

\* preprovision.ps1 41-58
ResolveTenant ==
    /\ pc = "tenant"
    /\ LET configured == Trim(GetValue(store, KTenant))
       IN IF ~IsNullOrWhiteSpace(configured)
          THEN /\ local' = [local EXCEPT !.tenantId = configured]
               /\ pc' = "register"
               /\ UNCHANGED <<store, log>>
          ELSE IF account.tenantId # ""
          THEN /\ local' = [local EXCEPT !.tenantId = account.tenantId]
               /\ store' = SetValue(store, KTenant, account.tenantId)
               /\ log' = Wrote(log, KTenant)
               /\ pc' = "register"
          ELSE /\ local' = Failed(local, "NoTenant")
               /\ pc' = "exit"
               /\ UNCHANGED <<store, log>>
    /\ UNCHANGED <<envFile, frontendFile, backendFile, provider, runs, edits,
                   lastRun, editedSince, selections,
                   storeWritable, identity,
                   chat, browser>>

\* the registerOrUpdate call as the provider sees it
Requested(tenantId, displayName, redirectUris) ==
    [tenantId |-> tenantId, displayName |-> displayName, redirectUris |-> redirectUris,
     existed |-> Registered(directory, tenantId, displayName) # {}]

\* preprovision.ps1 124-148 and the catch block 512-531
RegisterApp ==
    /\ pc = "register"
    /\ \E o \in RegistrarOutcomes :
        /\ "registrar" \in observed => o = registrar
        /\ registrar' = o
        /\ observed' = observed \cup {"registrar"}
        /\ log' = Called(log, "register")
        /\ IF o = "ok"
           THEN /\ directory' = RegisterOrUpdate(directory, local.tenantId,
                                                 AppName(EnvName), LocalhostUris)
                /\ request' = Requested(local.tenantId, AppName(EnvName), LocalhostUris)
           ELSE UNCHANGED identity
        /\ LET clientId == IF o = "ok"
                           THEN ClientIdOf(directory', local.tenantId, AppName(EnvName))
                           ELSE ""
           IN IF o \in {"throws", "timeout"}
              THEN /\ local' = Failed(local, "Exception")
                   /\ pc' = "exit"
              ELSE IF ~ClientIdReturned(clientId)
              THEN /\ local' = Failed(local, "RegistrationEmpty")
                   /\ pc' = "exit"
              ELSE /\ local' = [local EXCEPT !.clientId = clientId]
                   /\ pc' = "saveClientId"
    /\ UNCHANGED <<durable, account, resources, agents, runs, edits, lastRun,
                   editedSince, selections, storeWritable, chat, browser>>

\* preprovision.ps1 150-154
SaveClientId ==
    /\ pc = "saveClientId"
    /\ store' = SetValue(store, KClient, local.clientId)
    /\ log' = Wrote(log, KClient)
    /\ pc' = "checkConfigured"
    /\ UNCHANGED <<envFile, frontendFile, backendFile, provider, runs, edits, local, lastRun, editedSince, selections,
                   storeWritable, identity,
                   chat, browser>>

\* preprovision.ps1 166-168
IsPreconfigured(l) ==
    /\ ~IsNullOrWhiteSpace(l.existingEndpoint)
    /\ ~IsNullOrWhiteSpace(l.existingResourceGroup)
    /\ ~IsNullOrWhiteSpace(l.existingResourceName)

\* preprovision.ps1 160-168, 210
CheckConfigured ==
    /\ pc = "checkConfigured"
    /\ local' = [local EXCEPT !.existingEndpoint = GetValue(store, KEndpoint),
                              !.existingResourceGroup = GetValue(store, KGroup),
                              !.existingResourceName = GetValue(store, KName),
                              !.existingAgentId = GetValue(store, KAgent)]
    /\ pc' = IF IsPreconfigured(local') THEN "preconfigured" ELSE "listResources"
    /\ UNCHANGED <<durable, provider, runs, edits, log, lastRun, editedSince,
                   selections, storeWritable, identity,
                   chat, browser>>

\* FirstAgent, were it to take the last agent listed.
FirstAgent_LastListed(allAgents) == IF Len(allAgents) > 0 THEN allAgents[Len(allAgents)] ELSE ""

\* preprovision.ps1 197-205, 361-382: the agent the listing selects, "" for none
FirstAgent(allAgents) == IF Len(allAgents) > 0 THEN allAgents[1] ELSE ""

\* preprovision.ps1 169-209
Preconfigured ==
    /\ pc = "preconfigured"
    /\ IF ~IsNullOrWhiteSpace(local.existingAgentId)
       THEN UNCHANGED <<store, agents, observed, log>>
       ELSE \E a \in AgentOutcomes :
            /\ "agents" \in observed => a = agents
            /\ agents' = a
            /\ observed' = observed \cup {"agents"}
            /\ IF ~a.throws /\ FirstAgent(a.list) # ""
               THEN /\ store' = SetValue(store, KAgent, FirstAgent(a.list))
                    /\ log' = Wrote(Called(log, "listAgents"), KAgent)
               ELSE /\ store' = store
                    /\ log' = Called(log, "listAgents")
    /\ pc' = "emitEnv"
    /\ UNCHANGED <<envFile, frontendFile, backendFile, account, registrar, resources,
                   runs, edits, local, lastRun, editedSince, selections,
                   storeWritable, identity,
                   chat, browser>>

\* The empty-listing test, were it written -lt 0.
NoResourcesFound_Negative(rs) == Len(rs) < 0

\* preprovision.ps1 215
NoResourcesFound(rs) == Len(rs) = 0

\* preprovision.ps1 211-237
ListResources ==
    /\ pc = "listResources"
    /\ \E rs \in ResourceLists :
        /\ "resources" \in observed => rs = resources
        /\ resources' = rs
        /\ observed' = observed \cup {"resources"}
        /\ log' = Called(log, "listResources")
        /\ IF NoResourcesFound(rs)
           THEN pc' = "exit" /\ local' = Failed(local, "NoResources")
           ELSE pc' = "select" /\ local' = local
    /\ UNCHANGED <<durable, account, registrar, agents, runs, edits, lastRun,
                   editedSince, selections,
                   storeWritable, identity,
                   chat, browser>>

Selection(l) ==
    [ run |-> runs,
      resources |-> resources,
      configuredResourceName |-> Trim(l.existingResourceName),
      configuredResourceGroup |-> Trim(l.existingResourceGroup),
      host |-> l.host,
      selected |-> l.selectedResource ]

\* preprovision.ps1 239-270
SelectResource ==
    /\ pc = "select"
    /\ local' = [local EXCEPT !.selectedResource =
                    SelectByHints(resources, local.existingResourceName,
                                  local.existingResourceGroup)]
    /\ IF local'.selectedResource = NoResource
       THEN pc' = "prompt" /\ selections' = selections
       ELSE pc' = "listProjects" /\ selections' = selections \cup {Selection(local')}
    /\ UNCHANGED <<durable, provider, runs, edits, log, lastRun, editedSince, storeWritable, identity,
                   chat, browser>>

\* preprovision.ps1 271-274: the call of Select-Index; the host's answers are
\* locals of the function and are gone once its result has been used.
PromptSelection ==
    /\ pc = "prompt"
    /\ \E h \in Hosts :
       \E pfc \in PromptForChoiceAnswers(Len(resources), h),
          rh \in ReadHostAnswers(Len(resources), h) :
        LET n == Len(resources)
            asked == IF PromptForChoiceAccepted(n, pfc) THEN NotAsked ELSE rh
        IN local' = [local EXCEPT !.host = h,
                                  !.promptForChoice = pfc,
                                  !.readHost = asked,
                                  !.selectedIndex = SelectIndex(n, pfc, asked)]
    /\ log' = Called(log, "Select-Index")
    /\ pc' = "resolve"
    /\ UNCHANGED <<durable, provider, runs, edits, lastRun, editedSince, selections,
                   storeWritable, identity,
                   chat, browser>>

\* preprovision.ps1 276-289
UsePromptResult ==
    /\ pc = "resolve"
    /\ local' = [local EXCEPT !.host = "",
                              !.promptForChoice = NotAsked,
                              !.readHost = NotAsked,
                              !.selectedResource =
                                  ResolveSelection(resources, local.selectedIndex)]
    /\ log' = [log EXCEPT !.warnings =
                  IF local.selectedIndex < 0 THEN @ \cup {"FallbackToFirst"} ELSE @]
    /\ selections' = selections \cup
                        {[Selection(local') EXCEPT !.host = local.host]}
    /\ pc' = "listProjects"
    /\ UNCHANGED <<durable, provider, runs, edits, lastRun, editedSince, storeWritable, identity,
                   chat, browser>>

\* The empty-listing test, were it written -lt 0.
NoProjectsFound_Negative(projects) == Len(projects) < 0

\* preprovision.ps1 298
NoProjectsFound(projects) == Len(projects) = 0

\* preprovision.ps1 292-325; indexing an empty listing throws, which the catch
\* block 512-531 turns into exit 1
ListProjects ==
    /\ pc = "listProjects"
    /\ LET projects == ProjectsOf(local.selectedResource)
       IN IF NoProjectsFound(projects)
          THEN /\ local' = Failed([local EXCEPT !.projects = projects], "NoProjects")
               /\ pc' = "exit"
          ELSE IF Len(projects) = 0
          THEN /\ local' = Failed([local EXCEPT !.projects = projects], "Exception")
               /\ pc' = "exit"
          ELSE /\ local' = [local EXCEPT
                    !.projects = projects,
                    !.projectName = LastSegment(projects[1].name),
                    !.aiEndpoint = Endpoint(local.selectedResource.name,
                                            LastSegment(projects[1].name))]
               /\ pc' = "saveGroup"
    /\ log' = Called(log, "listProjects")
    /\ UNCHANGED <<durable, provider, runs, edits, lastRun, editedSince,
                   selections, storeWritable, identity,
                   chat, browser>>

\* preprovision.ps1 328
SaveResourceGroup ==
    /\ pc = "saveGroup"
    /\ store' = SetValue(store, KGroup, local.selectedResource.resourceGroup)
    /\ log' = Wrote(log, KGroup)
    /\ pc' = "saveName"
    /\ UNCHANGED <<envFile, frontendFile, backendFile, provider, runs, edits, local, lastRun, editedSince, selections,
                   storeWritable, identity,
                   chat, browser>>

\* preprovision.ps1 329
SaveResourceName ==
    /\ pc = "saveName"
    /\ store' = SetValue(store, KName, local.selectedResource.name)
    /\ log' = Wrote(log, KName)
    /\ pc' = "saveEndpoint"
    /\ UNCHANGED <<envFile, frontendFile, backendFile, provider, runs, edits, local, lastRun, editedSince, selections,
                   storeWritable, identity,
                   chat, browser>>

\* preprovision.ps1 330
SaveEndpoint ==
    /\ pc = "saveEndpoint"
    /\ store' = SetValue(store, KEndpoint, local.aiEndpoint)
    /\ log' = Wrote(log, KEndpoint)
    /\ pc' = "discoverAgent"
    /\ UNCHANGED <<envFile, frontendFile, backendFile, provider, runs, edits, local, lastRun, editedSince, selections,
                   storeWritable, identity,
                   chat, browser>>

\* preprovision.ps1 354-386
DiscoverAgent ==
    /\ pc = "discoverAgent"
    /\ LET aiAgentId == GetValue(store, KAgent)
       IN IF ~IsNullOrWhiteSpace(aiAgentId)
          THEN /\ local' = [local EXCEPT !.aiAgentId = aiAgentId]
               /\ UNCHANGED <<store, agents, observed, log>>
          ELSE \E a \in AgentOutcomes :
               /\ "agents" \in observed => a = agents
               /\ agents' = a
               /\ observed' = observed \cup {"agents"}
               /\ IF a.throws
                  THEN /\ local' = [local EXCEPT !.aiAgentId = aiAgentId]
                       /\ store' = store
                       /\ log' = [Called(log, "listAgents") EXCEPT
                                     !.warnings = @ \cup {"CouldNotListAgents"}]
                  ELSE IF FirstAgent(a.list) # ""
                  THEN /\ local' = [local EXCEPT !.aiAgentId = FirstAgent(a.list)]
                       /\ store' = SetValue(store, KAgent, FirstAgent(a.list))
                       /\ log' = Wrote(Called(log, "listAgents"), KAgent)
                  ELSE /\ local' = [local EXCEPT !.aiAgentId = aiAgentId]
                       /\ store' = store
                       /\ log' = Called(log, "listAgents")
    /\ pc' = "finalCheck"
    /\ UNCHANGED <<envFile, frontendFile, backendFile, account, registrar, resources,
                   runs, edits, lastRun, editedSince, selections,
                   storeWritable, identity,
                   chat, browser>>

\* preprovision.ps1 388-406
FinalAgentCheck ==
    /\ pc = "finalCheck"
    /\ IF IsNullOrWhiteSpace(local.aiAgentId)
       THEN local' = Failed(local, "NoAgent") /\ pc' = "exit"
       ELSE local' = local /\ pc' = "emitEnv"
    /\ UNCHANGED <<durable, provider, runs, edits, log, lastRun, editedSince,
                   selections, storeWritable, identity,
                   chat, browser>>

\* $existingVars[key] = value
FileSet(f, key, value) ==
    [k \in DOMAIN f \cup {key} |-> IF k = key THEN value ELSE f[k]]

\* FileSetIfPresent, were the value written whether blank or not.
FileSetIfPresent_Always(f, key, value) == FileSet(f, key, value)

\* preprovision.ps1 436-447
FileSetIfPresent(f, key, value) ==
    IF ~IsNullOrWhiteSpace(value) THEN FileSet(f, key, value) ELSE f

\* preprovision.ps1 422-447; values are the four get-value reads of 417-420
MergedEnvFile(existingVars, clientId, tenantId, values) ==
    FileSetIfPresent(
      FileSetIfPresent(
        FileSetIfPresent(
          FileSetIfPresent(
            FileSet(FileSet(existingVars, KClient, clientId), KTenant, tenantId),
            KEndpoint, values[KEndpoint]),
          KAgent, values[KAgent]),
        KGroup, values[KGroup]),
      KName, values[KName])

\* preprovision.ps1 409-457
EmitEnvFile ==
    /\ pc = "emitEnv"
    /\ local' = [local EXCEPT !.aiEndpoint = GetValue(store, KEndpoint),
                              !.aiAgentId = GetValue(store, KAgent)]
    /\ envFile' = MergedEnvFile(envFile, local.clientId, local.tenantId,
                                [k \in Keys |-> GetValue(store, k)])
    /\ log' = [log EXCEPT !.emitted = @ \cup {"env"}]
    /\ pc' = "emitFrontend"
    /\ UNCHANGED <<store, frontendFile, backendFile, provider, runs, edits,
                   lastRun, editedSince, selections,
                   storeWritable, identity,
                   chat, browser>>

\* preprovision.ps1 462-467: the here-string, one key=value line per entry
FrontendEnvContent(clientId, tenantId) ==
    [k \in {"VITE_ENTRA_SPA_CLIENT_ID", "VITE_ENTRA_TENANT_ID"} |->
        IF k = "VITE_ENTRA_SPA_CLIENT_ID" THEN clientId ELSE tenantId]

\* preprovision.ps1 459-469: Out-File -Force replaces whatever the file held
EmitFrontendEnv ==
    /\ pc = "emitFrontend"
    /\ frontendFile' = FrontendEnvContent(local.clientId, local.tenantId)
    /\ log' = [log EXCEPT !.emitted = @ \cup {"frontend"}]
    /\ pc' = "emitBackend"
    /\ UNCHANGED <<store, envFile, backendFile, provider, runs, edits, local,
                   lastRun, editedSince, selections, storeWritable, identity,
                   chat, browser>>

\* preprovision.ps1 479-491: the here-string, one key=value line per entry
BackendEnvContent(tenantId, clientId, aiAgentEndpoint, aiAgentId) ==
    [k \in {"AzureAd__Instance", "AzureAd__TenantId", "AzureAd__ClientId",
            "AzureAd__Audience", KEndpoint, KAgent} |->
        IF k = "AzureAd__Instance" THEN "https://login.microsoftonline.com/"
        ELSE IF k = "AzureAd__TenantId" THEN tenantId
        ELSE IF k = "AzureAd__ClientId" THEN clientId
        ELSE IF k = "AzureAd__Audience" THEN "api://" \o clientId
        ELSE IF k = KEndpoint THEN aiAgentEndpoint
        ELSE aiAgentId]

\* preprovision.ps1 471-493, 533-537: Out-File -Force replaces whatever the file held
EmitBackendEnv ==
    /\ pc = "emitBackend"
    /\ backendFile' = BackendEnvContent(local.tenantId, local.clientId,
                                        GetValue(store, KEndpoint), GetValue(store, KAgent))
    /\ local' = [local EXCEPT !.aiAgentId = GetValue(store, KAgent),
                              !.state = "Complete", !.exitCode = 0]
    /\ log' = [log EXCEPT !.emitted = @ \cup {"backend"}]
    /\ pc' = "exit"
    /\ UNCHANGED <<store, envFile, frontendFile, provider, runs, edits, lastRun,
                   editedSince, selections, storeWritable, identity,
                   chat, browser>>

\* The process ends; the azd environment and the files stay.
Exit ==
    /\ pc = "exit"
    /\ lastRun' = [state |-> local.state, reason |-> local.reason, store |-> store]
    /\ local' = InitLocal
    /\ log' = InitLog
    /\ editedSince' = FALSE
    /\ pc' = "idle"
    /\ UNCHANGED <<durable, provider, runs, edits, selections, storeWritable, identity,
                   chat, browser>>

\* ------------------------------------------------- the user, between runs
EditValues(key) ==
    IF key = KGroup THEN {"rg-2", "rg-stale"}
    ELSE IF key = KName THEN {"foundry-a", "foundry-stale"}
    ELSE IF key = KEndpoint THEN {""}
    ELSE IF key = KAgent THEN {"", "agent-2", "error-bot"}
    ELSE IF key = KTenant THEN {"tenant-2"}
    ELSE {}

\* azd env set KEY VALUE, typed by the user
UserSet ==
    /\ pc = "idle"
    /\ storeWritable
    /\ edits < MaxEdits
    /\ runs < MaxRuns
    /\ \E key \in Keys : \E value \in EditValues(key) :
        /\ store[key] # value
        /\ store' = SetValue(store, key, value)
    /\ edits' = edits + 1
    /\ editedSince' = TRUE
    /\ UNCHANGED <<envFile, frontendFile, backendFile, provider, pc, runs, local,
                   log, lastRun, selections, storeWritable, identity,
                   chat, browser>>

\* a setting the user adds by hand to one of the three files
UserSetting == [key |-> "FOO", value |-> "bar"]

OutputFiles == {"env", "frontend", "backend"}

UserAddsSetting ==
    /\ pc = "idle"
    /\ edits < MaxEdits
    /\ runs < MaxRuns
    /\ \E f \in OutputFiles :
        /\ envFile' = IF f = "env" THEN FileSet(envFile, UserSetting.key, UserSetting.value)
                      ELSE envFile
        /\ frontendFile' = IF f = "frontend"
                           THEN FileSet(frontendFile, UserSetting.key, UserSetting.value)
                           ELSE frontendFile
        /\ backendFile' = IF f = "backend"
                          THEN FileSet(backendFile, UserSetting.key, UserSetting.value)
                          ELSE backendFile
        /\ <<envFile, frontendFile, backendFile>>' # <<envFile, frontendFile, backendFile>>
    /\ edits' = edits + 1
    /\ UNCHANGED <<store, provider, pc, runs, local, log, lastRun, editedSince,
                   selections, storeWritable, identity,
                   chat, browser>>

\* the azd environment starts to reject writes (azd env set exits non-zero)
StoreOutage ==
    /\ storeWritable
    /\ storeWritable' = FALSE
    /\ UNCHANGED <<durable, provider, pc, runs, edits, local, log, lastRun,
                   editedSince, selections, identity, chat, browser>>

Next ==
    \/ StartRun
    \/ Prereq
    \/ ResolveTenant
    \/ RegisterApp
    \/ SaveClientId
    \/ CheckConfigured
    \/ Preconfigured
    \/ ListResources
    \/ SelectResource
    \/ PromptSelection
    \/ UsePromptResult
    \/ ListProjects
    \/ SaveResourceGroup
    \/ SaveResourceName
    \/ SaveEndpoint
    \/ DiscoverAgent
    \/ FinalAgentCheck
    \/ EmitEnvFile
    \/ EmitFrontendEnv
    \/ EmitBackendEnv
    \/ Exit
    \/ UserSet
    \/ UserAddsSetting

Spec == Init /\ [][Next]_vars

\* one step of the running hook, or the start of a run
HookNext ==
    \/ StartRun
    \/ Prereq
    \/ ResolveTenant
    \/ RegisterApp
    \/ SaveClientId
    \/ CheckConfigured
    \/ Preconfigured
    \/ ListResources
    \/ SelectResource
    \/ PromptSelection
    \/ UsePromptResult
    \/ ListProjects
    \/ SaveResourceGroup
    \/ SaveResourceName
    \/ SaveEndpoint
    \/ DiscoverAgent
    \/ FinalAgentCheck
    \/ EmitEnvFile
    \/ EmitFrontendEnv
    \/ EmitBackendEnv
    \/ Exit

\* the process is killed between two statements: the azd environment and the
\* files stay as they are, nothing is rolled back
Abort ==
    /\ pc \notin {"idle", "exit"}
    /\ lastRun' = [state |-> "Aborted", reason |-> pc, store |-> store]
    /\ local' = InitLocal
    /\ log' = InitLog
    /\ editedSince' = FALSE
    /\ pc' = "idle"
    /\ UNCHANGED <<durable, provider, runs, edits, selections, storeWritable, identity,
                   chat, browser>>

\* runs and hard aborts only: nobody edits the azd environment or the files
AbortNext == HookNext \/ Abort

AbortSpec == Init /\ [][AbortNext]_vars

\* the inputs of registerOrUpdate
RegistrarTenants == {"tenant-1", "tenant-2"}

DisplayNames == {AppName("dev"), AppName("test")}

RedirectUriSets == (SUBSET {"http://localhost:5173", "https://app.example"}) \ {{}}

\* a started hook runs to its end: the script is one sequential process with no
\* loop and no wait of its own; whether a run is started is up to the user
RunStep == pc # "idle" /\ HookNext

LiveSpec == Init /\ [][HookNext]_vars /\ WF_vars(RunStep)

\* registerOrUpdate called by any of its callers (the preprovision hook with the
\* localhost URIs, the postprovision hook with the production URL)
RegisterOrUpdateCall ==
    /\ pc = "idle"
    /\ \E t \in RegistrarTenants, n \in DisplayNames, u \in RedirectUriSets :
        /\ Registered(directory, t, n) # {} \/ Len(directory) < MaxRegistrations
        /\ directory' = RegisterOrUpdate(directory, t, n, u)
        /\ request' = Requested(t, n, u)
    /\ UNCHANGED <<durable, provider, pc, runs, edits, local, log, lastRun,
                   editedSince, selections, storeWritable, chat, browser>>

RegistrarNext == RegisterOrUpdateCall

RegistrarSpec == Init /\ [][RegistrarNext]_vars

\* ------------------------------------------------------------- chat server
hook == <<durable, provider, pc, runs, edits, local, log, lastRun, editedSince,
          selections, storeWritable, identity>>

\* index.js 1 and 95-99: the environment is loaded and the server listens
Listen ==
    /\ ~server.listening
    /\ \E k \in ApiKeys : server' = [listening |-> TRUE, apiKey |-> k]
    /\ UNCHANGED <<hook, exchanges, browser>>

\* sent: the res.json calls the handler made for the request, in order;
\* response: what the client got, the first of them
Exchange(body, call, reply, sent) ==
    [body |-> body, call |-> call, reply |-> reply, sent |-> sent,
     response |-> IF sent = << >> THEN Pending ELSE sent[1]]

\* index.js 24-63: a request arrives and is answered at once or reaches fetch
ChatRequest ==
    /\ server.listening
    /\ Len(exchanges) < MaxRequests
    /\ \E body \in RequestBodies :
        LET v == Validate(body.message, server.apiKey)
        IN exchanges' = Append(exchanges,
              IF v = "Call"
              THEN Exchange(body, UpstreamMessages(exchanges, body.message),
                            NoReply, << >>)
              ELSE Exchange(body, NoCall, NoReply, ValidationSends(v)))
    /\ UNCHANGED <<hook, server, browser>>

\* index.js 63-85: the fetch of one request settles and the handler answers
ChatUpstreamReply ==
    /\ \E i \in 1..Len(exchanges), reply \in UpstreamReplies :
        /\ exchanges[i].response = Pending
        /\ exchanges' = [exchanges EXCEPT
                           ![i] = Exchange(@.body, @.call, reply, CompletionSends(reply))]
    /\ UNCHANGED <<hook, server, browser>>

ChatNext == Listen \/ ChatRequest \/ ChatUpstreamReply

ChatSpec == Init /\ [][ChatNext]_vars

\* ------------------------------------------------------------- chat client
\* App.jsx 91: the human types; a disabled input takes no text
OnChange ==
    /\ ~InputDisabled(client.loading)
    /\ \E t \in ClientTexts :
        /\ t # client.message
        /\ client' = [client EXCEPT !.message = t]
    /\ UNCHANGED <<hook, chat, requests, submits>>

\* App.jsx 9-29: a submit event of the form, from the button, the Enter key
\* or a script: up to the fetch
HandleSubmit ==
    /\ Len(submits) < MaxSubmitEvents
    /\ submits' = Append(submits, client.message)
    /\ IF Accepted(client.message)
       THEN /\ client' = AfterSubmit(client)
            /\ requests' = Append(requests,
                   [content |-> JsTrim(client.message),
                    entry |-> Len(client.conversation) + 1,
                    state |-> "pending",
                    reply |-> NotFetched])
       ELSE UNCHANGED <<client, requests>>
    /\ UNCHANGED <<hook, chat>>

\* App.jsx 31-45: the fetch of a request settles and handleSubmit ends
RequestSettles ==
    /\ \E i \in 1..Len(requests), r \in ClientReplies :
        /\ requests[i].state = "pending"
        /\ requests' = [requests EXCEPT ![i].state = IF Succeeded(r) THEN "ok" ELSE "failed",
                                        ![i].reply = r]
        /\ client' = AfterSettle(client, r)
    /\ UNCHANGED <<hook, chat, submits>>

ClientNext == OnChange \/ HandleSubmit \/ RequestSettles

ClientSpec == Init /\ [][ClientNext]_vars

\* the same program on an azd environment that may start to reject writes
FaultNext == Next \/ StoreOutage

FaultSpec == Init /\ [][FaultNext]_vars

\* ------------------------------------------------------------------ claims
RunEnded == pc = "exit"

Configured(s, key) == ~IsNullOrWhiteSpace(s[key])

\* the hints as the selector receives them (preprovision.ps1 246-247)
configuredResourceName == Trim(local.existingResourceName)
configuredResourceGroup == Trim(local.existingResourceGroup)

NameMatches == { i \in 1..Len(resources) : resources[i].name = configuredResourceName }
GroupMatches ==
    { i \in 1..Len(resources) : resources[i].resourceGroup = configuredResourceGroup }

\* the listing has been read in this run and the hint rules have been applied
HintsApplied ==
    /\ "listResources" \in log.calls
    /\ Len(resources) >= 1
    /\ pc # "select"

Prompted == "Select-Index" \in log.calls

\* C1: a run that starts with a non-blank AI_AGENT_ID in the ConfigStore ends with
\* the same AI_AGENT_ID in the ConfigStore, whatever the agent listing holds.
C1_AgentPinPreserved ==
    (RunEnded /\ Configured(log.store0, KAgent)) => store[KAgent] = log.store0[KAgent]

\* C2: a run that follows a Complete run, with no edit in between and the same
\* provider answers, is Complete too and leaves every resolved key as it was.
C2_SecondRunSameConfiguration ==
    (RunEnded /\ lastRun.state = "Complete" /\ ~editedSince)
        => /\ local.state = "Complete"
           /\ \A k \in Keys : store[k] = lastRun.store[k]

\* C3: with endpoint, resource group and resource name all non-blank in the
\* ConfigStore at the start, the run lists no resources and no projects, does not
\* prompt, leaves the three keys alone, and lists agents exactly when AI_AGENT_ID
\* is blank.
C3_FastPathFrame ==
    (pc # "idle" /\ \A k \in ResourceKeys : Configured(log.store0, k))
        => /\ log.calls \cap {"listResources", "listProjects", "Select-Index"} = {}
           /\ \A k \in ResourceKeys : store[k] = log.store0[k]
           /\ "listAgents" \in log.calls => ~Configured(log.store0, KAgent)
           /\ (pc \in {"emitEnv", "emitFrontend", "emitBackend"}
               /\ ~Configured(log.store0, KAgent)) => "listAgents" \in log.calls

\* C4: a listing of exactly one candidate selects it without a prompt, whatever
\* the name and group hints are.
C4_SingleCandidateSelected ==
    (HintsApplied /\ Len(resources) = 1)
        => local.selectedResource = resources[1] /\ ~Prompted

C4_Witness ==
    /\ HintsApplied /\ Len(resources) = 1
    /\ pc = "listProjects"
    /\ configuredResourceName = "foundry-stale"
    /\ configuredResourceGroup = "rg-stale"
    /\ local.selectedResource = resources[1]

HumanChoice ==
    IF local.promptForChoice.kind = "returns"
       /\ local.promptForChoice.value \in 0..(Len(resources) - 1)
    THEN local.promptForChoice.value
    ELSE IF local.readHost.kind = "returns" /\ local.readHost.parsed
            /\ local.readHost.value \in 1..Len(resources)
    THEN local.readHost.value - 1
    ELSE 0 - 1

C8_SelectorDeterminism ==
    \A a, b \in selections :
        (/\ a.host # "interactive" /\ b.host # "interactive"
         /\ a.resources = b.resources
         /\ a.configuredResourceName = b.configuredResourceName
         /\ a.configuredResourceGroup = b.configuredResourceGroup)
            => a.selected = b.selected

C8_Witness ==
    \E a, b \in selections :
        /\ a.run # b.run
        /\ a.host = "headless" /\ b.host = "headless"
        /\ a.configuredResourceName = b.configuredResourceName
        /\ a.configuredResourceGroup = b.configuredResourceGroup
        /\ a.selected = b.selected

AIKeys == {KGroup, KName, KEndpoint, KAgent}

\* C9: an empty resource listing ends the run Failed(NotFound) with a non-zero
\* exit code; no projects or agents are listed, no AI_FOUNDRY_* or AI_AGENT_*
\* key is written and no file is emitted.
C9_ZeroCandidates ==
    ("listResources" \in log.calls /\ Len(resources) = 0)
        => /\ RunEnded
           /\ local.state = "Failed" /\ local.reason = "NoResources"
           /\ local.exitCode # 0
           /\ log.calls \cap {"listProjects", "listAgents"} = {}
           /\ log.written \cap AIKeys = {}
           /\ \A k \in AIKeys : store[k] = log.store0[k]
           /\ log.emitted = {}

C9_Witness ==
    /\ RunEnded
    /\ "listResources" \in log.calls /\ Len(resources) = 0
    /\ local.reason = "NoResources"

\* C10: when the selected resource has no projects the run ends Failed(NotFound)
\* with a non-zero exit code and has written none of resource group, resource
\* name and endpoint.
C10_ZeroProjects ==
    ("listProjects" \in log.calls /\ Len(ProjectsOf(local.selectedResource)) = 0)
        => /\ RunEnded
           /\ local.state = "Failed" /\ local.reason = "NoProjects"
           /\ local.exitCode # 0
           /\ log.written \cap ResourceKeys = {}
           /\ \A k \in ResourceKeys : store[k] = log.store0[k]

C10_Witness ==
    /\ RunEnded
    /\ "listProjects" \in log.calls
    /\ local.selectedResource # NoResource
    /\ Len(ProjectsOf(local.selectedResource)) = 0
    /\ local.reason = "NoProjects"

\* the agent listing was called in this run and returned normally
AgentsListed == "listAgents" \in log.calls /\ ~agents.throws

FastPath == "listResources" \notin log.calls

\* C11: on either path, a run that found AI_AGENT_ID blank and whose agent
\* listing returned no agent ends Failed(NotFound) with a non-zero exit code;
\* it emits nothing and is not Complete.
C11_ZeroAgents ==
    (RunEnded /\ AgentsListed /\ Len(agents.list) = 0)
        => /\ local.state = "Failed" /\ local.reason = "NoAgent"
           /\ local.exitCode # 0
           /\ log.emitted = {}

\* the agent selected from a listing, as the claim words it
FirstListed == agents.list[1]

\* C12: on either path, a run that found AI_AGENT_ID blank lists the agents, and
\* when the listing holds one or more agents the name of the first one is what
\* the ConfigStore holds as AI_AGENT_ID from then on.
C12_FirstAgentPersisted ==
    /\ (pc \in {"finalCheck", "emitEnv", "emitFrontend", "emitBackend"}
        /\ ~Configured(log.store0, KAgent)) => "listAgents" \in log.calls
    /\ (AgentsListed /\ Len(agents.list) >= 1)
           => /\ store[KAgent] = FirstListed
              /\ KAgent \in log.written
              /\ ~(RunEnded /\ local.reason = "NoAgent")

C12_Witness ==
    /\ pc = "emitEnv"
    /\ FastPath
    /\ AgentsListed /\ Len(agents.list) = 2
    /\ log.store0[KAgent] = ""
    /\ store[KAgent] = agents.list[1]

\* C13: whenever a run has emitted a file or is about to, and when it is
\* Complete, all six keys are non-blank in the ConfigStore.
C13_FullyPopulatedBeforeEmission ==
    (pc \in {"emitEnv", "emitFrontend", "emitBackend"} \/ log.emitted # {}
     \/ (RunEnded /\ local.state = "Complete"))
        => \A k \in Keys : Configured(store, k)

\* the current content of an output file
FileNow(f) == IF f = "env" THEN envFile ELSE IF f = "frontend" THEN frontendFile ELSE backendFile

\* the keys the emitter resolves for an output file
ResolvedKeysOf(f) ==
    IF f = "env" THEN Keys
    ELSE IF f = "frontend" THEN {"VITE_ENTRA_SPA_CLIENT_ID", "VITE_ENTRA_TENANT_ID"}
    ELSE {"AzureAd__Instance", "AzureAd__TenantId", "AzureAd__ClientId",
          "AzureAd__Audience", KEndpoint, KAgent}

Preserved(f) ==
    \A k \in (DOMAIN log.files0[f]) \ ResolvedKeysOf(f) :
        k \in DOMAIN FileNow(f) /\ FileNow(f)[k] = log.files0[f][k]

\* C14: once a run has written an output file, every key the file held before
\* the run that is not one of the keys the emitter resolves for that file is
\* still in the file with the value it had.
C14_MergeNotReplace ==
    \A f \in OutputFiles : f \in log.emitted => Preserved(f)

\* C15: a run in which an azd env set was rejected ends Failed and emits no
\* output file.
C15_PersistenceErrorFatal ==
    (pc # "idle" /\ log.failed # {})
        => /\ log.emitted = {}
           /\ RunEnded => local.state = "Failed"

\* C16: a run in which a discovery call failed (the agent listing threw) ends
\* Failed with a non-zero exit code, emits nothing and is not Complete.
C16_DiscoveryFailureSurfaces ==
    ("listAgents" \in log.calls /\ agents.throws)
        => /\ log.emitted = {}
           /\ RunEnded => (local.state = "Failed" /\ local.exitCode # 0)

\* C17: a call that failed transiently (the registration timed out) has been
\* invoked twice by the time the run ends Failed; a call that failed for a
\* policy or not-found reason is invoked once only.
C17_RetryOnce ==
    /\ (RunEnded /\ "register" \in log.calls /\ registrar = "timeout")
           => log.attempts["register"] = 2
    /\ ("register" \in log.calls /\ registrar \in {"throws", "empty"})
           => log.attempts["register"] = 1
    /\ ("listResources" \in log.calls /\ Len(resources) = 0)
           => log.attempts["listResources"] = 1

\* C18: a run ends with exit code 0 exactly when it is Complete, which is exactly
\* when it has emitted all three files; a run that ends Failed, wherever it
\* failed, ends with a non-zero exit code.
C18_ExitCode ==
    RunEnded
        => /\ local.state \in {"Complete", "Failed"}
           /\ local.exitCode = 0 <=> local.state = "Complete"
           /\ local.state = "Complete" <=> log.emitted = OutputFiles
           /\ local.state = "Failed" => (local.exitCode # 0 /\ log.emitted = {})

C18_Witness ==
    /\ RunEnded
    /\ local.state = "Failed" /\ local.reason = "NoAgent"
    /\ ResourceKeys \subseteq log.written
    /\ local.exitCode = 1

\* the agent step of the run is over
AgentResolutionFinished ==
    \/ pc \in {"finalCheck", "emitEnv", "emitFrontend", "emitBackend"}
    \/ RunEnded /\ (local.state = "Complete" \/ local.reason = "NoAgent")

\* the external calls happen in the order registration, resources, projects, agents
CallsInOrder ==
    /\ log.calls \cap {"listResources", "listProjects", "listAgents"} # {}
           => "register" \in log.calls
    /\ "listProjects" \in log.calls => "listResources" \in log.calls
    /\ ("listAgents" \in log.calls /\ ~FastPath) => "listProjects" \in log.calls
    /\ log.emitted # {} => AgentResolutionFinished

\* C19: the steps of a run happen in the order registration, resource
\* discovery, project selection, agent resolution, persistence, emission: no key
\* has been written to the ConfigStore by the run before its agent step is over.
C19_StepOrdering ==
    /\ CallsInOrder
    /\ log.written # {} => AgentResolutionFinished

\* C20: once the discovery path has written AI_AGENT_ENDPOINT, the ConfigStore
\* holds https://{resourceName}.services.ai.azure.com/api/projects/{projectName}
\* with resourceName the name of the selected resource, also held as
\* AI_FOUNDRY_RESOURCE_NAME, and projectName the last segment of the name of
\* the first project listed for it.
C20_DerivedEndpoint ==
    KEndpoint \in log.written
        => LET name == ProjectsOf(local.selectedResource)[1].name
               projectName == name[Len(name)]
           IN /\ store[KName] = local.selectedResource.name
              /\ store[KEndpoint] = "https://" \o store[KName]
                                     \o ".services.ai.azure.com/api/projects/"
                                     \o projectName

C20_Witness ==
    /\ pc = "discoverAgent"
    /\ KEndpoint \in log.written
    /\ Len(resources) = 2
    /\ local.selectedResource = resources[2]
    /\ Len(ProjectsOf(local.selectedResource)) = 2
    /\ store[KEndpoint] = "https://foundry-b.services.ai.azure.com/api/projects/proj-1"

\* C21: a run that follows a Complete run, with nothing changed in between or
\* only AI_FOUNDRY_RESOURCE_GROUP set to another group, lists the AI Foundry
\* resources again instead of taking the pre-configured branch.
C21_RerunRediscovers ==
    (/\ lastRun.state = "Complete"
     /\ \A k \in Keys \ {KGroup} : log.store0[k] = lastRun.store[k]
     /\ \/ pc \in {"preconfigured", "emitEnv", "emitFrontend", "emitBackend"}
        \/ RunEnded /\ local.state = "Complete")
        => ~FastPath

\* the catalog resource a stored endpoint was derived from
RefersTo(r) ==
    /\ store[KName] = r.name
    /\ store[KGroup] = r.resourceGroup
    /\ \E p \in ProjectSegments : store[KEndpoint] = "https://" \o r.name
                                     \o ".services.ai.azure.com/api/projects/" \o p

\* C22: over runs and hard aborts with no external edit, whenever resource
\* group, resource name and endpoint are all non-blank in the ConfigStore they
\* belong to one and the same catalog resource.
C22_AbortSafety ==
    (\A k \in ResourceKeys : Configured(store, k))
        => \E i \in 1..Len(resources) : RefersTo(resources[i])

\* C23: when the registrar fails or returns no client identifier the run ends
\* Failed with a non-zero exit code; ENTRA_SPA_CLIENT_ID is not written, no
\* discovery call is made and no file is emitted.
C23_RegistrationFailure ==
    ("register" \in log.calls /\ registrar # "ok")
        => /\ RunEnded
           /\ local.state = "Failed" /\ local.exitCode # 0
           /\ KClient \notin log.written
           /\ store[KClient] = log.store0[KClient]
           /\ log.calls \cap {"listResources", "listProjects", "listAgents"} = {}
           /\ log.emitted = {}

C23_Witness ==
    /\ RunEnded
    /\ "register" \in log.calls /\ registrar = "empty"
    /\ local.reason = "RegistrationEmpty"
    /\ KTenant \in log.written

\* the registrations that carry the display name of this environment in the
\* tenant of the run
OwnRegistrations(dir) ==
    { i \in DOMAIN dir : /\ dir[i].tenantId = local.tenantId
                         /\ dir[i].displayName = "ai-foundry-agent-" \o EnvName }

\* C24: the hook registers under the display name ai-foundry-agent-<envName>;
\* when a registration of that name exists in the tenant the call returns its
\* client identifier and adds no registration, and afterwards exactly one
\* registration carries the name.
C24_RegistrationIdempotent ==
    [][ (pc = "register" /\ pc' = "saveClientId")
        => /\ request'.displayName = "ai-foundry-agent-" \o EnvName
           /\ request'.tenantId = local.tenantId
           /\ OwnRegistrations(directory) # {}
                 => /\ Len(directory') = Len(directory)
                    /\ \A i \in OwnRegistrations(directory) :
                          local'.clientId = directory[i].clientId
           /\ Cardinality(OwnRegistrations(directory')) = 1
           /\ \A i \in OwnRegistrations(directory') :
                 local'.clientId = directory'[i].clientId ]_vars

C24_Witness ==
    /\ pc = "saveClientId"
    /\ runs = 2
    /\ request.existed
    /\ Len(directory) = 1
    /\ local.clientId = "client-1"
    /\ lastRun.store[KClient] = local.clientId

\* C25: a registerOrUpdate call removes no registration and no redirect URI, and
\* the registration it finds holds afterwards the union of the URIs it held and
\* the URIs requested.
C25_MonotonicRedirectUris ==
    [][ /\ Len(directory') >= Len(directory)
        /\ \A i \in DOMAIN directory :
              /\ directory[i].redirectUris \subseteq directory'[i].redirectUris
              /\ directory'[i].clientId = directory[i].clientId
              /\ directory'[i].displayName = directory[i].displayName
        /\ \A i \in Registered(directory, request'.tenantId, request'.displayName) :
              directory'[i].redirectUris =
                  directory[i].redirectUris \cup request'.redirectUris ]_vars

C25_Witness ==
    /\ request.existed
    /\ request.redirectUris = {"https://app.example"}
    /\ \E i \in Registered(directory, request.tenantId, request.displayName) :
          directory[i].redirectUris = {"http://localhost:5173", "https://app.example"}

\* ---- C26, C27: the chat endpoint
Answered(e) == e.response # Pending

\* the upstream call returned a completion object with a success status
Successful(reply) == reply.resolves /\ Ok(reply) /\ reply.json = "completion"

\* C26: the completion API is called only for a request with a non-empty
\* message on a server with a key; a missing or empty message is answered 400
\* with or without a key, a message without a key 500, and a successful
\* upstream call 200 with a body that holds reply and nothing else.
C26_ValidationOrder ==
    \A i \in 1..Len(exchanges) :
        LET e == exchanges[i]
        IN /\ e.call # NoCall => ~Falsy(e.body.message) /\ ~Falsy(server.apiKey)
           /\ Falsy(e.body.message) => e.response.status = 400 /\ e.call = NoCall
           /\ ~Falsy(e.body.message) /\ Falsy(server.apiKey)
                => e.response.status = 500 /\ e.call = NoCall
           /\ Answered(e) /\ Successful(e.reply)
                => e.response.status = 200 /\ DOMAIN e.response.body = {"reply"}

\* a server without a key has answered 400 to a request without a message and
\* 500 to a request with one
C26_Witness ==
    /\ Falsy(server.apiKey)
    /\ \E i, j \in 1..Len(exchanges) :
        /\ Falsy(exchanges[i].body.message)
        /\ exchanges[i].response.status = 400
        /\ ~Falsy(exchanges[j].body.message)
        /\ exchanges[j].response.status = 500

\* C27: the server keeps no session: two requests with the same body and the
\* same upstream reply get the same response whatever was served before them,
\* and every upstream call carries the system prompt and the current message
\* only.
C27_NoSessions ==
    /\ \A i, j \in 1..Len(exchanges) :
        /\ Answered(exchanges[i]) /\ Answered(exchanges[j])
        /\ exchanges[i].body = exchanges[j].body
        /\ exchanges[i].reply = exchanges[j].reply
        => exchanges[i].response = exchanges[j].response
    /\ \A i \in 1..Len(exchanges) :
        exchanges[i].call # NoCall
        => exchanges[i].call = <<[role |-> "system", content |-> SystemPrompt],
                                 [role |-> "user",
                                  content |-> exchanges[i].body.message.value]>>

\* the same request got the same upstream reply as the first request and as the
\* third, after a different request was served in between
C27_Witness ==
    /\ Len(exchanges) = 3
    /\ \A i \in 1..3 : Answered(exchanges[i]) /\ exchanges[i].call # NoCall
    /\ exchanges[1].body = exchanges[3].body
    /\ exchanges[1].reply = exchanges[3].reply
    /\ exchanges[2].body # exchanges[1].body
    /\ Successful(exchanges[3].reply)

StaleName == ~IsNullOrWhiteSpace(configuredResourceName) /\ NameMatches = {}

StaleGroup == ~IsNullOrWhiteSpace(configuredResourceGroup) /\ GroupMatches = {}

StaleHint ==
    /\ "listResources" \in log.calls
    /\ Len(resources) >= 2
    /\ StaleName \/ StaleGroup

Listed(r) == \E i \in 1..Len(resources) : resources[i] = r

C30_TenantResolution ==
    [][ /\ pc = "tenant" =>
            IF Configured(store, KTenant)
            THEN /\ local'.tenantId = store[KTenant]
                 /\ store' = store
                 /\ log'.written = {}
                 /\ pc' = "register"
            ELSE IF account.tenantId # ""
            THEN /\ local'.tenantId = account.tenantId
                 /\ store' = [store EXCEPT ![KTenant] = account.tenantId]
                 /\ log'.written = {KTenant}
                 /\ "register" \notin log'.calls
                 /\ request' = request
                 /\ pc' = "register"
            ELSE /\ pc' = "exit"
                 /\ local'.state = "Failed"
                 /\ store' = store
                 /\ log'.written = {}
                 /\ "register" \notin log'.calls
                 /\ request' = request /\ directory' = directory
        /\ pc = "register" /\ request' # request
             => /\ request'.tenantId = local.tenantId
                /\ store[KTenant] = local.tenantId ]_vars

\* the user configured tenant-2, the account is in tenant-1: the registrar was
\* called for tenant-2 and ENTRA_TENANT_ID was not written by the run
C30_Witness ==
    /\ pc = "saveClientId"
    /\ account.tenantId = "tenant-1"
    /\ store[KTenant] = "tenant-2"
    /\ local.tenantId = "tenant-2"
    /\ request.tenantId = "tenant-2"
    /\ KTenant \notin log.written

\* ---- C31: the selected resource is a listed candidate
\* C31: Select-Index returns -1 or an index of the listing, and in a run that
\* listed the resources the group and name written to the ConfigStore are
\* those of one candidate of that listing.
C31_SelectedIsListed ==
    "listResources" \in log.calls =>
        /\ pc = "resolve"
             => \/ local.selectedIndex = 0 - 1
                \/ local.selectedIndex \in 0..(Len(resources) - 1)
        /\ local.selectedResource # NoResource => Listed(local.selectedResource)
        /\ KGroup \in log.written
             => \E i \in 1..Len(resources) :
                    /\ resources[i] = local.selectedResource
                    /\ store[KGroup] = resources[i].resourceGroup
                    /\ KName \in log.written => store[KName] = resources[i].name
        /\ KName \in log.written => KGroup \in log.written

\* the human picked the second of two candidates and its group and name are
\* in the ConfigStore
C31_Witness ==
    /\ pc = "saveEndpoint"
    /\ Len(resources) = 2
    /\ Prompted
    /\ local.selectedIndex = 1
    /\ store[KName] = resources[2].name
    /\ store[KGroup] = resources[2].resourceGroup
    /\ {KGroup, KName} \subseteq log.written

\* ---- C32: an invalid answer at the prompt
\* the human was asked at Read-Host and typed something that is not a number
\* of 1..N
InvalidAnswer ==
    /\ local.host = "interactive"
    /\ local.readHost.kind = "returns"
    /\ ~(/\ local.readHost.parsed
         /\ local.readHost.value \in 1..Len(resources))

\* C32: after an answer that is not a number of 1..N Select-Index has returned
\* -1 and was called once; the run goes on, not failed, with the first
\* candidate and the fallback warning.
C32_InvalidAnswer ==
    [][ pc = "resolve" /\ InvalidAnswer
        => /\ local.selectedIndex = 0 - 1
           /\ log.attempts["Select-Index"] = 1
           /\ pc' = "listProjects"
           /\ local'.selectedResource = resources[1]
           /\ local'.state = "Running"
           /\ "FallbackToFirst" \in log'.warnings
           /\ log'.attempts["Select-Index"] = 1 ]_vars

\* the human typed N+1 at Read-Host and Select-Index returned -1
C32_Witness ==
    /\ pc = "resolve"
    /\ Len(resources) >= 2
    /\ local.host = "interactive"
    /\ local.readHost = [kind |-> "returns", parsed |-> TRUE,
                         value |-> Len(resources) + 1]
    /\ local.selectedIndex = 0 - 1

\* ---- C33: the emitted files agree with the ConfigStore
\* the file's line for a key, when it has one, holds the ConfigStore's value
Agrees(file, line, key) == line \in DOMAIN file => file[line] = store[key]

Carries(file, line) == line \in DOMAIN file

\* C33: when a run is Complete, the three files carry the client id and the
\* tenant id of the ConfigStore, and the .env file and the backend file carry
\* no AI_AGENT_ENDPOINT or AI_AGENT_ID other than the ConfigStore's.
C33_CrossFileConsistency ==
    RunEnded /\ local.state = "Complete" =>
        /\ Carries(envFile, KClient) /\ Agrees(envFile, KClient, KClient)
        /\ Carries(envFile, KTenant) /\ Agrees(envFile, KTenant, KTenant)
        /\ Carries(frontendFile, "VITE_ENTRA_SPA_CLIENT_ID")
        /\ Agrees(frontendFile, "VITE_ENTRA_SPA_CLIENT_ID", KClient)
        /\ Carries(frontendFile, "VITE_ENTRA_TENANT_ID")
        /\ Agrees(frontendFile, "VITE_ENTRA_TENANT_ID", KTenant)
        /\ Carries(backendFile, "AzureAd__ClientId")
        /\ Agrees(backendFile, "AzureAd__ClientId", KClient)
        /\ Carries(backendFile, "AzureAd__TenantId")
        /\ Agrees(backendFile, "AzureAd__TenantId", KTenant)
        /\ Agrees(envFile, KEndpoint, KEndpoint)
        /\ Agrees(envFile, KAgent, KAgent)
        /\ Agrees(backendFile, KEndpoint, KEndpoint)
        /\ Agrees(backendFile, KAgent, KAgent)

\* ---- C34: blank values and the .env file
\* C34: the step that writes .azure/<env>/.env leaves the line of an AI key
\* whose value it read blank as it was (absent stays absent, a value stays),
\* and sets ENTRA_SPA_CLIENT_ID and ENTRA_TENANT_ID to the run's values.
C34_BlankNeverOverwrites ==
    [][ pc = "emitEnv"
        => /\ \A k \in AIKeys :
                IsNullOrWhiteSpace(GetValue(store, k))
                => IF k \in DOMAIN envFile
                   THEN k \in DOMAIN envFile' /\ envFile'[k] = envFile[k]
                   ELSE k \notin DOMAIN envFile'
           /\ KClient \in DOMAIN envFile' /\ envFile'[KClient] = local.clientId
           /\ KTenant \in DOMAIN envFile' /\ envFile'[KTenant] = local.tenantId ]_vars

\* the file held an agent id, this run read AI_AGENT_ID blank, and the file
\* written by the run still holds the id
C34_Witness ==
    /\ pc = "emitFrontend"
    /\ IsNullOrWhiteSpace(GetValue(store, KAgent))
    /\ KAgent \in DOMAIN log.files0["env"]
    /\ KAgent \in DOMAIN envFile
    /\ envFile[KAgent] = log.files0["env"][KAgent]
    /\ envFile[KAgent] # ""
    /\ envFile[KClient] = local.clientId

\* ---- C35: one response per chat request
\* C35: a request is waiting for its fetch, with no response sent, or the
\* handler has sent exactly one response; a request that failed a check was
\* answered without a call.
C35_ExactlyOneResponse ==
    \A i \in 1..Len(exchanges) :
        LET e == exchanges[i]
        IN /\ Len(e.sent) <= 1
           /\ e.call = NoCall => Len(e.sent) = 1
           /\ e.reply # NoReply => Len(e.sent) = 1
           /\ Len(e.sent) = 0 => e.call # NoCall /\ e.reply = NoReply

\* one server has answered a request without message, an upstream error
\* status and an upstream body that cannot be parsed
C35_Witness ==
    /\ Len(exchanges) = 3
    /\ exchanges[1].sent = <<MessageRequired>>
    /\ exchanges[2].reply = Resolved(401, "error", << >>, JsString("bad key"))
    /\ Len(exchanges[2].sent) = 1 /\ exchanges[2].response.status = 401
    /\ exchanges[3].reply = Resolved(502, "invalid", << >>, JsUndefined)
    /\ exchanges[3].sent = <<InternalServerError>>

\* ---- C36, C37, C38: the chat client
InFlight == { i \in 1..Len(requests) : requests[i].state = "pending" }

\* C36: loading is true exactly while a request of the client is pending,
\* the input and the Send button are disabled while it is, and at most one
\* request is pending at any time.
C36_SingleInFlight ==
    /\ client.loading <=> InFlight # {}
    /\ Cardinality(InFlight) <= 1
    /\ client.loading => /\ InputDisabled(client.loading)
                         /\ ButtonDisabled(client.loading, client.message)
                         /\ client.message = ""

\* a second request is in flight after the first one failed
C36_Witness ==
    /\ Len(requests) = 2
    /\ requests[1].state = "failed"
    /\ requests[2].state = "pending"
    /\ client.loading

\* a request settled in this step
Settled(i) == requests[i].state = "pending" /\ requests'[i].state # "pending"

\* C37: the conversation only grows at its end; an accepted submission appends
\* its trimmed text as a user entry and issues the request for that entry; a
\* request that succeeds appends one assistant entry, which comes directly
\* after the user entry of that request, and a request that fails appends
\* nothing and sets error.
C37_AppendOnlyConversation ==
    [][ /\ Len(client'.conversation) >= Len(client.conversation)
        /\ SubSeq(client'.conversation, 1, Len(client.conversation)) = client.conversation
        /\ Len(submits') > Len(submits) /\ Accepted(client.message)
             => /\ client'.conversation =
                      Append(client.conversation,
                             Entry("user", JsString(JsTrim(client.message))))
                /\ Len(requests') = Len(requests) + 1
                /\ requests'[Len(requests')].state = "pending"
                /\ requests'[Len(requests')].entry = Len(client'.conversation)
                /\ requests'[Len(requests')].content = JsTrim(client.message)
        /\ \A i \in 1..Len(requests) :
             Settled(i)
             => IF requests'[i].state = "ok"
                THEN /\ client'.conversation =
                           Append(client.conversation,
                                  Entry("assistant", requests'[i].reply.reply))
                     /\ Len(client'.conversation) = requests[i].entry + 1
                     /\ client'.error = client.error
                ELSE /\ client'.conversation = client.conversation
                     /\ client'.error # JsNull ]_vars

\* hi was answered hello, bye failed: three entries and an error
C37_Witness ==
    /\ client.conversation = << Entry("user", JsString("hi")),
                                Entry("assistant", JsString("hello")),
                                Entry("user", JsString("bye")) >>
    /\ Len(requests) = 2
    /\ requests[1].state = "ok"
    /\ requests[2].state = "failed"
    /\ client.error = JsString("Failed to fetch")
    /\ ~client.loading

\* C38: a submit event on a text that is empty or only whitespace issues no
\* request and leaves message, conversation, loading and error as they were.
C38_EmptySubmissionNoOp ==
    [][ Len(submits') > Len(submits) /\ JsTrim(client.message) = ""
        => /\ client' = client
           /\ requests' = requests ]_vars

\* a blank and an empty text were submitted and nothing happened
C38_Witness ==
    /\ submits = <<" ", "">>
    /\ requests = << >>
    /\ client = InitClient

====
